---- MODULE Spec2Model ----
(***************************************************************************)
(* A model of the Result type (result.ts), of runCatching                  *)
(* (run-catching.ts) and of the catching extensions mapCatching and        *)
(* recoverCatching (result-catching.extension.ts).                         *)
(*                                                                         *)
(* JavaScript values are records tagged by the field t.  Result objects    *)
(* live in a heap (a sequence), so that reference identity is the index;   *)
(* Error objects carry an id, so that two Errors with the same message are *)
(* different objects.  Every operation of the library is an operator that  *)
(* returns a completion record: how the call ended (kind), the value       *)
(* returned or raised (val), the caller-supplied functions it invoked      *)
(* (calls), and the heap and Error counter after the call.                 *)
(***************************************************************************)
EXTENDS Integers, Sequences, FiniteSets, TLC

VARIABLES heap, nerr, last, pc

vars == <<heap, nerr, last, pc>>

(***************************************************************************)
(* Bounds                                                                  *)
(***************************************************************************)
MaxResults == 2

MaxErrors == 2

(***************************************************************************)
(* JavaScript values                                                       *)
(***************************************************************************)
Undefined == [t |-> "undefined"]

Null == [t |-> "null"]

Str(s) == [t |-> "string", s |-> s]

Num(n) == [t |-> "number", n |-> n]

Bool(b) == [t |-> "boolean", b |-> b]

ErrorObj(id, name, message) == [t |-> "Error", id |-> id, name |-> name, message |-> message]

\* {} : an object that inherits Object.prototype.toString
PlainObject == [t |-> "object", proto |-> "Object"]

\* Object.create(null) : an object without a toString method
BareObject == [t |-> "object", proto |-> "null"]

ResultRef(ref) == [t |-> "Result", ref |-> ref]

\* The Error the client code holds before any call.
Error1 == ErrorObj(1, "Error", "boom")

\* Payloads the client passes to the constructors and as defaults.
Payloads == {Undefined, Null, Str("x"), Error1}

\* Values a caller-supplied function may raise.
Raised == {Error1, Str("s"), Num(42), Null, Undefined, PlainObject, BareObject}

\* Caller-supplied functions: x => x, () => c, () => { throw e }.
Identity == [fn |-> "identity"]

Constant(out) == [fn |-> "constant", out |-> out]

Thrower(exc) == [fn |-> "thrower", exc |-> exc]

\* The arrow function () => fn(arg) built inside the catching extensions.
Closure(fn, arg) == [fn |-> "closure", inner |-> fn, arg |-> arg]

Returning == {Identity, Constant(Str("t"))}

Throwing == {Thrower(e) : e \in Raised}

\* Blocks and transforms handed to the catching functions, whose catch clause
\* inspects the raised value.
Functions == Returning \cup Throwing

\* Handlers handed to the other operations, which never look at a raised value.
Handlers == Returning \cup {Thrower(Error1), Thrower(Str("s"))}

\* The object { onSuccess, onFailure } accepted by fold.
HandlersObject(onSuccess, onFailure) ==
    [t |-> "object", proto |-> "Object", onSuccess |-> onSuccess, onFailure |-> onFailure]

\* The pairs of handlers the client hands to fold: two different functions.
FoldHandlers ==
    {p \in {Identity, Constant(Str("t")), Thrower(Error1)} \X
             {Identity, Constant(Str("t")), Thrower(Error1)} : p[1] # p[2]}

(***************************************************************************)
(* Completions                                                             *)
(***************************************************************************)
Normal(val, calls, h, n) == [kind |-> "normal", val |-> val, calls |-> calls, heap |-> h, nerr |-> n]

Throw(val, calls, h, n) == [kind |-> "throw", val |-> val, calls |-> calls, heap |-> h, nerr |-> n]

\* Prefix the invocations made before completion o was produced.
After(calls, o) == [o EXCEPT !.calls = calls \o @]

(***************************************************************************)
(* Language primitives                                                     *)
(***************************************************************************)
typeof(v) ==
    CASE v.t = "undefined" -> "undefined"
      [] v.t = "string" -> "string"
      [] v.t = "number" -> "number"
      [] v.t = "boolean" -> "boolean"
      [] v.t \in {"null", "Error", "object", "Result"} -> "object"

instanceofError(v) == v.t = "Error"

\* v == null
LooseEqualsNull(v) == v.t \in {"null", "undefined"}

\* truthiness of an operand whose typeof is 'object'
TruthyObject(v) == v.t # "null"

\* new Error(message) / new TypeError(message): a fresh object
NewError(name, message, n) == ErrorObj(n + 1, name, message)

\* error.toString() on a non-null object
toStringMethod(v, h, n) ==
    CASE v.t = "Error" -> Normal(Str(v.name \o ": " \o v.message), <<>>, h, n)
      [] v.t = "object" /\ v.proto = "Object" -> Normal(Str("[object Object]"), <<>>, h, n)
      [] v.t = "object" /\ v.proto = "null" ->
            Throw(NewError("TypeError", "toString is not a function", n), <<>>, h, n + 1)

\* String(v)
String(v, h, n) ==
    CASE v.t = "undefined" -> Normal(Str("undefined"), <<>>, h, n)
      [] v.t = "null" -> Normal(Str("null"), <<>>, h, n)
      [] v.t = "string" -> Normal(v, <<>>, h, n)
      [] v.t = "number" -> Normal(Str(ToString(v.n)), <<>>, h, n)
      [] v.t = "boolean" -> Normal(Str(IF v.b THEN "true" ELSE "false"), <<>>, h, n)
      [] v.t = "Error" -> toStringMethod(v, h, n)
      [] v.t = "object" /\ v.proto = "Object" -> toStringMethod(v, h, n)
      [] v.t = "object" /\ v.proto = "null" ->
            Throw(NewError("TypeError", "Cannot convert object to primitive value", n), <<>>, h, n + 1)

\* f(...args) for a caller-supplied function; the invocation is recorded.
CallFunction(f, args, h, n) ==
    LET rec == <<[fn |-> f, args |-> args]>> IN
    CASE f.fn = "identity" -> Normal(IF Len(args) = 0 THEN Undefined ELSE args[1], rec, h, n)
      [] f.fn = "constant" -> Normal(f.out, rec, h, n)
      [] f.fn = "thrower" -> Throw(f.exc, rec, h, n)

\* f(...args) for any function value, the library's own arrow functions included.
Call(f, args, h, n) ==
    IF f.fn = "closure" THEN CallFunction(f.inner, <<f.arg>>, h, n)
    ELSE CallFunction(f, args, h, n)

(***************************************************************************)
(* result.ts : class Result and its subclasses Success and Failure         *)
(***************************************************************************)
\* new Success(value) : the object has the one field value
NewSuccess(value) == [cls |-> "Success", value |-> value]

\* new Failure(error) : the object has the one field error
NewFailure(error) == [cls |-> "Failure", error |-> error]

\* get isSuccess
isSuccess(this, h) == h[this].cls = "Success"

\* a getter that tests the base class instead of the subclass
isFailureOfBaseClass(this, h) == h[this].cls \in {"Success", "Failure"}

\* get isFailure
isFailure(this, h) == h[this].cls = "Failure"

\* a rawValue that reads the property value, which a Failure does not have
rawValueOfValueProperty(this, h) == IF h[this].cls = "Success" THEN h[this].value ELSE Undefined

\* get rawValue
rawValue(this, h) == IF isSuccess(this, h) THEN h[this].value ELSE h[this].error

\* a success that stores null when the argument is omitted
successStoringNull(args, h, n) ==
    LET value == IF Len(args) = 0 THEN Null ELSE args[1] IN
    Normal(ResultRef(Len(h) + 1), <<>>, Append(h, NewSuccess(value)), n)

\* static success(value?) : an omitted argument is undefined
success(args, h, n) ==
    LET value == IF Len(args) = 0 THEN Undefined ELSE args[1] IN
    Normal(ResultRef(Len(h) + 1), <<>>, Append(h, NewSuccess(value)), n)

\* static failure(error?) : an omitted argument is undefined
failure(args, h, n) ==
    LET error == IF Len(args) = 0 THEN Undefined ELSE args[1] IN
    Normal(ResultRef(Len(h) + 1), <<>>, Append(h, NewFailure(error)), n)

\* a getOrNull that turns an undefined value into null
getOrNullOfNullish(this, h) ==
    IF isSuccess(this, h) /\ ~LooseEqualsNull(rawValue(this, h)) THEN rawValue(this, h) ELSE Null

\* a getOrNull that hands out the stored payload of either variant
getOrNullOfPayload(this, h) == rawValue(this, h)

\* getOrNull()
getOrNull(this, h) == IF isSuccess(this, h) THEN rawValue(this, h) ELSE Null

\* errorOrNull()
errorOrNull(this, h) == IF isFailure(this, h) THEN rawValue(this, h) ELSE Null

\* a getOrThrow that tests errorOrNull() against null, as getOrElse does
getOrThrowByErrorOrNull(this, h, n) ==
    IF ~LooseEqualsNull(errorOrNull(this, h)) THEN Throw(rawValue(this, h), <<>>, h, n)
    ELSE Normal(rawValue(this, h), <<>>, h, n)

\* getOrThrow()
getOrThrow(this, h, n) ==
    IF isFailure(this, h) THEN Throw(rawValue(this, h), <<>>, h, n)
    ELSE Normal(rawValue(this, h), <<>>, h, n)

\* getOrDefault(defaultValue)
getOrDefault(this, defaultValue, h, n) ==
    LET value == getOrNull(this, h) IN
    IF ~LooseEqualsNull(value) THEN Normal(value, <<>>, h, n)
    ELSE Normal(defaultValue, <<>>, h, n)

\* a getOrElse that catches what onFailure raises and wraps it in a Failure
getOrElseCatching(this, onFailure, h, n) ==
    LET error == errorOrNull(this, h) IN
    IF LooseEqualsNull(error) THEN Normal(rawValue(this, h), <<>>, h, n)
    ELSE LET c == Call(onFailure, <<error>>, h, n) IN
         IF c.kind = "throw" THEN After(c.calls, failure(<<c.val>>, c.heap, c.nerr))
         ELSE c

\* getOrElse(onFailure)
getOrElse(this, onFailure, h, n) ==
    LET error == errorOrNull(this, h) IN
    IF LooseEqualsNull(error) THEN Normal(rawValue(this, h), <<>>, h, n)
    ELSE Call(onFailure, <<error>>, h, n)

\* a map that hands back the receiver when it is a Failure
mapReturningReceiver(this, transform, h, n) ==
    IF isSuccess(this, h)
    THEN LET c == Call(transform, <<rawValue(this, h)>>, h, n) IN
         IF c.kind = "throw" THEN c
         ELSE After(c.calls, success(<<c.val>>, c.heap, c.nerr))
    ELSE Normal(ResultRef(this), <<>>, h, n)

\* map(transform)
map(this, transform, h, n) ==
    IF isSuccess(this, h)
    THEN LET c == Call(transform, <<rawValue(this, h)>>, h, n) IN
         IF c.kind = "throw" THEN c
         ELSE After(c.calls, success(<<c.val>>, c.heap, c.nerr))
    ELSE failure(<<rawValue(this, h)>>, h, n)

\* a mapError that copies the Failure without transforming its error
mapErrorKeepingError(this, transform, h, n) ==
    IF isFailure(this, h) THEN failure(<<rawValue(this, h)>>, h, n)
    ELSE success(<<rawValue(this, h)>>, h, n)

\* mapError(transform)
mapError(this, transform, h, n) ==
    IF isFailure(this, h)
    THEN LET c == Call(transform, <<rawValue(this, h)>>, h, n) IN
         IF c.kind = "throw" THEN c
         ELSE After(c.calls, failure(<<c.val>>, c.heap, c.nerr))
    ELSE success(<<rawValue(this, h)>>, h, n)

\* typeof handlers === 'object' : a function value is not an object
typeofHandlers(handlers) == IF "fn" \in DOMAIN handlers THEN "function" ELSE typeof(handlers)

\* a fold that picks the handler by testing errorOrNull() against null
foldWithByErrorOrNull(this, onSuccess, onFailure, h, n) ==
    IF LooseEqualsNull(errorOrNull(this, h)) THEN Call(onSuccess, <<getOrNull(this, h)>>, h, n)
    ELSE Call(onFailure, <<errorOrNull(this, h)>>, h, n)

\* fold, once both handlers are functions (the two last lines of the method)
foldWith(this, onSuccess, onFailure, h, n) ==
    IF isSuccess(this, h) THEN Call(onSuccess, <<h[this].value>>, h, n)
    ELSE Call(onFailure, <<h[this].error>>, h, n)

\* a fold whose object form takes the two fields in the wrong order
foldSwappingFields(this, handlers, onFailure, h, n) ==
    IF typeofHandlers(handlers) = "object"
    THEN foldWith(this, handlers.onFailure, handlers.onSuccess, h, n)
    ELSE foldWith(this, handlers, onFailure, h, n)

\* fold(handlers, onFailure?) : the object form destructures the object and
\* calls this.fold(onSuccess, onFailure) with its two functions
fold(this, handlers, onFailure, h, n) ==
    IF typeofHandlers(handlers) = "object"
    THEN foldWith(this, handlers.onSuccess, handlers.onFailure, h, n)
    ELSE foldWith(this, handlers, onFailure, h, n)

\* a recover that wraps the value of a Success in a new Success
recoverCopying(this, transform, h, n) ==
    LET error == errorOrNull(this, h) IN
    IF LooseEqualsNull(error) THEN success(<<rawValue(this, h)>>, h, n)
    ELSE LET c == Call(transform, <<error>>, h, n) IN
         IF c.kind = "throw" THEN c
         ELSE After(c.calls, success(<<c.val>>, c.heap, c.nerr))

\* recover(transform)
recover(this, transform, h, n) ==
    LET error == errorOrNull(this, h) IN
    IF LooseEqualsNull(error) THEN Normal(ResultRef(this), <<>>, h, n)
    ELSE LET c == Call(transform, <<error>>, h, n) IN
         IF c.kind = "throw" THEN c
         ELSE After(c.calls, success(<<c.val>>, c.heap, c.nerr))

\* an onSuccess that runs the action on either variant
onSuccessOfEitherVariant(this, action, h, n) ==
    LET c == Call(action, <<rawValue(this, h)>>, h, n) IN
    IF c.kind = "throw" THEN c
    ELSE Normal(ResultRef(this), c.calls, c.heap, c.nerr)

\* onSuccess(action)
onSuccess(this, action, h, n) ==
    IF isSuccess(this, h)
    THEN LET c == Call(action, <<rawValue(this, h)>>, h, n) IN
         IF c.kind = "throw" THEN c
         ELSE Normal(ResultRef(this), c.calls, c.heap, c.nerr)
    ELSE Normal(ResultRef(this), <<>>, h, n)

\* an onFailure that runs the action on either variant
onFailureOfEitherVariant(this, action, h, n) ==
    LET c == Call(action, <<rawValue(this, h)>>, h, n) IN
    IF c.kind = "throw" THEN c
    ELSE Normal(ResultRef(this), c.calls, c.heap, c.nerr)

\* onFailure(action)
onFailure(this, action, h, n) ==
    IF isFailure(this, h)
    THEN LET c == Call(action, <<rawValue(this, h)>>, h, n) IN
         IF c.kind = "throw" THEN c
         ELSE Normal(ResultRef(this), c.calls, c.heap, c.nerr)
    ELSE Normal(ResultRef(this), <<>>, h, n)

\* a toString that tags the payload with its variant, as the doc comment says
toStringWithTag(this, h, n) ==
    LET s == String(rawValue(this, h), h, n) IN
    IF s.kind = "throw" THEN s
    ELSE Normal(Str((IF isSuccess(this, h) THEN "Success(" ELSE "Failure(") \o s.val.s \o ")"),
                <<>>, s.heap, s.nerr)

\* toString()
toString(this, h, n) == String(rawValue(this, h), h, n)

\* isSuccessResult(result)
isSuccessResult(result, h) == h[result].cls = "Success"

\* isFailureResult(result)
isFailureResult(result, h) == h[result].cls = "Failure"

(***************************************************************************)
(* run-catching.ts                                                         *)
(***************************************************************************)
\* the catch clause of runCatching: the raised value becomes a Failure
catchClause(error, calls, h, n) ==
    IF typeof(error) = "string"
    THEN After(calls, failure(<<NewError("Error", error.s, n)>>, h, n + 1))
    ELSE IF instanceofError(error)
    THEN After(calls, failure(<<error>>, h, n))
    ELSE IF typeof(error) = "object" /\ TruthyObject(error)
    THEN LET s == toStringMethod(error, h, n) IN
         IF s.kind = "throw" THEN After(calls, s)
         ELSE After(calls, failure(<<NewError("Error", s.val.s, s.nerr)>>, s.heap, s.nerr + 1))
    ELSE LET s == String(error, h, n) IN
         IF s.kind = "throw" THEN After(calls, s)
         ELSE After(calls, failure(<<NewError("Error", s.val.s, s.nerr)>>, s.heap, s.nerr + 1))

\* a catch clause that wraps every raised value, an Error included, in a new Error
catchClauseWrappingErrors(error, calls, h, n) ==
    IF instanceofError(error)
    THEN After(calls, failure(<<NewError("Error", error.message, n)>>, h, n + 1))
    ELSE catchClause(error, calls, h, n)

\* a runCatching that evaluates block a second time to obtain the value
runCatchingCallingTwice(block, h, n) ==
    LET c == Call(block, <<>>, h, n) IN
    IF c.kind = "normal"
    THEN LET d == Call(block, <<>>, c.heap, c.nerr) IN
         After(c.calls \o d.calls, success(<<d.val>>, d.heap, d.nerr))
    ELSE catchClause(c.val, c.calls, c.heap, c.nerr)

\* a runCatching whose catch clause wraps Errors
runCatchingWrappingErrors(block, h, n) ==
    LET c == Call(block, <<>>, h, n) IN
    IF c.kind = "normal" THEN After(c.calls, success(<<c.val>>, c.heap, c.nerr))
    ELSE catchClauseWrappingErrors(c.val, c.calls, c.heap, c.nerr)

\* runCatching(block)
runCatching(block, h, n) ==
    LET c == Call(block, <<>>, h, n) IN
    IF c.kind = "normal" THEN After(c.calls, success(<<c.val>>, c.heap, c.nerr))
    ELSE catchClause(c.val, c.calls, c.heap, c.nerr)

(***************************************************************************)
(* result-catching.extension.ts                                            *)
(***************************************************************************)
\* this.value : the property is absent on a Failure
valueProperty(this, h) == IF h[this].cls = "Success" THEN h[this].value ELSE Undefined

\* a mapCatching that reads the property value instead of rawValue
mapCatchingOfValueProperty(this, transform, h, n) ==
    IF isSuccess(this, h)
    THEN runCatching(Closure(transform, valueProperty(this, h)), h, n)
    ELSE failure(<<valueProperty(this, h)>>, h, n)

\* Result.prototype.mapCatching
mapCatching(this, transform, h, n) ==
    IF isSuccess(this, h)
    THEN runCatching(Closure(transform, rawValue(this, h)), h, n)
    ELSE failure(<<rawValue(this, h)>>, h, n)

\* a recoverCatching that stores the recovered outcome in the receiver
recoverCatchingInPlace(this, transform, h, n) ==
    IF isSuccess(this, h) THEN Normal(ResultRef(this), <<>>, h, n)
    ELSE LET c == runCatching(Closure(transform, rawValue(this, h)), h, n) IN
         IF c.kind = "throw" THEN c
         ELSE Normal(ResultRef(this), c.calls, [h EXCEPT ![this] = c.heap[c.val.ref]], c.nerr)

\* Result.prototype.recoverCatching
recoverCatching(this, transform, h, n) ==
    IF isSuccess(this, h) THEN Normal(ResultRef(this), <<>>, h, n)
    ELSE runCatching(Closure(transform, rawValue(this, h)), h, n)

(***************************************************************************)
(* The client program: it builds Results and calls the library on them.    *)
(* last records the latest call: the operation, the receiver (0 for a      *)
(* static or free function), the arguments and how the call completed.     *)
(* The client makes a call (pc = "called"), looks at its completion, then  *)
(* goes on to its next statement (pc = "run").                             *)
(***************************************************************************)
Refs == 1..Len(heap)

Record(op, this, args, o) ==
    /\ pc = "run"
    /\ pc' = "called"
    /\ Len(o.heap) <= MaxResults
    /\ o.nerr <= MaxErrors
    /\ heap' = o.heap
    /\ nerr' = o.nerr
    /\ last' = [op |-> op, this |-> this, args |-> args,
                kind |-> o.kind, val |-> o.val, calls |-> o.calls]

NoCall == [op |-> "none", this |-> 0, args |-> <<>>,
           kind |-> "normal", val |-> Undefined, calls |-> <<>>]

Init ==
    /\ heap = <<>>
    /\ nerr = 1
    /\ pc = "run"
    /\ last = NoCall

\* the client goes on to its next statement
Continue ==
    /\ pc = "called"
    /\ pc' = "run"
    /\ last' = NoCall
    /\ UNCHANGED <<heap, nerr>>

Success ==
    /\ pc = "run"
    /\ \E args \in {<<>>} \cup {<<v>> : v \in Payloads} :
        Record("success", 0, args, success(args, heap, nerr))

Failure ==
    /\ pc = "run"
    /\ \E args \in {<<>>} \cup {<<e>> : e \in Payloads} :
        Record("failure", 0, args, failure(args, heap, nerr))

GetOrNull ==
    /\ pc = "run"
    /\ \E r \in Refs : Record("getOrNull", r, <<>>, Normal(getOrNull(r, heap), <<>>, heap, nerr))

ErrorOrNull ==
    /\ pc = "run"
    /\ \E r \in Refs : Record("errorOrNull", r, <<>>, Normal(errorOrNull(r, heap), <<>>, heap, nerr))

GetOrThrow ==
    /\ pc = "run"
    /\ \E r \in Refs : Record("getOrThrow", r, <<>>, getOrThrow(r, heap, nerr))

GetOrDefault ==
    /\ pc = "run"
    /\ \E r \in Refs, d \in Payloads :
        Record("getOrDefault", r, <<d>>, getOrDefault(r, d, heap, nerr))

GetOrElse ==
    /\ pc = "run"
    /\ \E r \in Refs, f \in Handlers :
        Record("getOrElse", r, <<f>>, getOrElse(r, f, heap, nerr))

Map ==
    /\ pc = "run"
    /\ \E r \in Refs, f \in Handlers : Record("map", r, <<f>>, map(r, f, heap, nerr))

MapError ==
    /\ pc = "run"
    /\ \E r \in Refs, f \in Handlers : Record("mapError", r, <<f>>, mapError(r, f, heap, nerr))

Fold ==
    /\ pc = "run"
    /\ \E r \in Refs, p \in FoldHandlers :
        Record("fold", r, <<p[1], p[2]>>, fold(r, p[1], p[2], heap, nerr))

FoldObject ==
    /\ pc = "run"
    /\ \E r \in Refs, p \in FoldHandlers :
        Record("fold", r, <<HandlersObject(p[1], p[2])>>,
               fold(r, HandlersObject(p[1], p[2]), Undefined, heap, nerr))

Recover ==
    /\ pc = "run"
    /\ \E r \in Refs, f \in Handlers : Record("recover", r, <<f>>, recover(r, f, heap, nerr))

OnSuccess ==
    /\ pc = "run"
    /\ \E r \in Refs, f \in Handlers : Record("onSuccess", r, <<f>>, onSuccess(r, f, heap, nerr))

OnFailure ==
    /\ pc = "run"
    /\ \E r \in Refs, f \in Handlers : Record("onFailure", r, <<f>>, onFailure(r, f, heap, nerr))

ToStringCall ==
    /\ pc = "run"
    /\ \E r \in Refs : Record("toString", r, <<>>, toString(r, heap, nerr))

IsSuccessResult ==
    /\ pc = "run"
    /\ \E r \in Refs :
        Record("isSuccessResult", 0, <<ResultRef(r)>>,
               Normal(Bool(isSuccessResult(r, heap)), <<>>, heap, nerr))

IsFailureResult ==
    /\ pc = "run"
    /\ \E r \in Refs :
        Record("isFailureResult", 0, <<ResultRef(r)>>,
               Normal(Bool(isFailureResult(r, heap)), <<>>, heap, nerr))

RunCatching ==
    /\ pc = "run"
    /\ \E f \in Functions : Record("runCatching", 0, <<f>>, runCatching(f, heap, nerr))

MapCatching ==
    /\ pc = "run"
    /\ \E r \in Refs, f \in Functions :
        Record("mapCatching", r, <<f>>, mapCatching(r, f, heap, nerr))

RecoverCatching ==
    /\ pc = "run"
    /\ \E r \in Refs, f \in Functions :
        Record("recoverCatching", r, <<f>>, recoverCatching(r, f, heap, nerr))

Next ==
    \/ Success
    \/ Failure
    \/ GetOrNull
    \/ ErrorOrNull
    \/ GetOrThrow
    \/ GetOrDefault
    \/ GetOrElse
    \/ Map
    \/ MapError
    \/ Fold
    \/ FoldObject
    \/ Recover
    \/ OnSuccess
    \/ OnFailure
    \/ ToStringCall
    \/ IsSuccessResult
    \/ IsFailureResult
    \/ RunCatching
    \/ MapCatching
    \/ RecoverCatching
    \/ Continue

Spec == Init /\ [][Next]_vars

TypeOK ==
    /\ Len(heap) <= MaxResults
    /\ nerr \in 1..MaxErrors
    /\ \A r \in Refs : heap[r].cls \in {"Success", "Failure"}

(***************************************************************************)
(* Properties.  Each is stated about the latest call recorded in last.     *)
(***************************************************************************)
\* the receiver of the latest call and the function passed to it
This == last.this

Fn == last.args[1]

\* what invoking f once on <<arg>> produces
Applied(f, arg) == CallFunction(f, <<arg>>, heap, nerr)

\* C1: getOrDefault(d) returns the success value of a Success, whatever the
\* payload (null and undefined included), and d for a Failure.
C1_GetOrDefaultByVariant ==
    last.op = "getOrDefault" =>
        /\ last.kind = "normal"
        /\ last.val = IF heap[This].cls = "Success" THEN heap[This].value ELSE last.args[1]

\* C2: getOrElse(f) returns the success value of a Success without invoking f,
\* and completes as f(e), f invoked exactly once on e, for a Failure(e),
\* whatever e is (null and undefined included).
C2_GetOrElseByVariant ==
    last.op = "getOrElse" =>
        IF heap[This].cls = "Success"
        THEN last.kind = "normal" /\ last.val = heap[This].value /\ last.calls = <<>>
        ELSE /\ last.calls = <<[fn |-> Fn, args |-> <<heap[This].error>>]>>
             /\ last.kind = Applied(Fn, heap[This].error).kind
             /\ last.val = Applied(Fn, heap[This].error).val

\* C3: recover(t) on a Failure(e), t returning, yields a Success holding t(e),
\* whatever e is (null and undefined included).
C3_RecoverYieldsSuccess ==
    (last.op = "recover" /\ heap[This].cls = "Failure" /\ Fn \in Returning) =>
        /\ last.kind = "normal"
        /\ heap[last.val.ref].cls = "Success"
        /\ heap[last.val.ref].value = Applied(Fn, heap[This].error).val

\* C4: mapCatching on a Failure(e) never invokes the transform and returns a
\* Failure whose errorOrNull() is e itself.
C4_MapCatchingKeepsError ==
    (last.op = "mapCatching" /\ heap[This].cls = "Failure") =>
        /\ last.kind = "normal"
        /\ last.calls = <<>>
        /\ isFailure(last.val.ref, heap)
        /\ errorOrNull(last.val.ref, heap) = heap[This].error

\* C4 witness: mapCatching was called on a Failure that stores an Error.
C4_Witness ==
    /\ last.op = "mapCatching"
    /\ heap[This].cls = "Failure"
    /\ heap[This].error = Error1
    /\ Fn = Constant(Str("t"))

\* C5: toString() returns "Success(<value>)" for a Success and
\* "Failure(<error>)" for a Failure, <..> being the payload's string form.
C5_ToStringHasTag ==
    (last.op = "toString" /\ last.kind = "normal") =>
        last.val = Str((IF heap[This].cls = "Success" THEN "Success(" ELSE "Failure(")
                       \o String(rawValue(This, heap), heap, nerr).val.s \o ")")

\* C6: every Result that exists is exactly one of success and failure, and the
\* free predicates agree with the getters.
C6_ExactlyOneVariant ==
    \A r \in Refs :
        /\ isSuccess(r, heap) = ~isFailure(r, heap)
        /\ isSuccessResult(r, heap) = isSuccess(r, heap)
        /\ isFailureResult(r, heap) = isFailure(r, heap)

\* C6 witness: a Result made by a constructor and one derived from it by a
\* catching transform coexist, one of each variant.
C6_Witness ==
    /\ last.op \in {"mapCatching", "recoverCatching"}
    /\ last.kind = "normal"
    /\ last.val.ref # This
    /\ heap[This].cls # heap[last.val.ref].cls

\* C7: Result.success(v) is a success, not a failure, getOrNull() is v and
\* errorOrNull() is null; Result.failure(e) is a failure, getOrNull() is null
\* and errorOrNull() is e.
C7_ConstructorsDetermineQueries ==
    /\ (last.op = "success" /\ Len(last.args) = 1) =>
            /\ isSuccess(last.val.ref, heap)
            /\ ~isFailure(last.val.ref, heap)
            /\ getOrNull(last.val.ref, heap) = last.args[1]
            /\ errorOrNull(last.val.ref, heap) = Null
    /\ (last.op = "failure" /\ Len(last.args) = 1) =>
            /\ isFailure(last.val.ref, heap)
            /\ getOrNull(last.val.ref, heap) = Null
            /\ errorOrNull(last.val.ref, heap) = last.args[1]

\* C7 witness: a Failure was just built from an Error, next to a Success
\* built before it.
C7_Witness ==
    /\ last.op = "failure"
    /\ last.args = <<Error1>>
    /\ Len(heap) = 2
    /\ heap[1].cls = "Success"

\* C8: runCatching(block) returns a Result and raises nothing, whatever
\* block raises.
C8_RunCatchingNeverRaises ==
    last.op = "runCatching" => (last.kind = "normal" /\ last.val.t = "Result")

\* C9: when block returns v, runCatching(block) invokes block exactly once,
\* with no arguments, and returns a Success holding v.
C9_RunCatchingWrapsValue ==
    (last.op = "runCatching" /\ Fn \in Returning) =>
        /\ last.kind = "normal"
        /\ last.calls = <<[fn |-> Fn, args |-> <<>>]>>
        /\ isSuccess(last.val.ref, heap)
        /\ heap[last.val.ref].value = CallFunction(Fn, <<>>, heap, nerr).val

\* C9 witness: runCatching ran a block that returns a string.
C9_Witness ==
    /\ last.op = "runCatching"
    /\ Fn = Constant(Str("t"))
    /\ heap[last.val.ref] = NewSuccess(Str("t"))

\* C10: when block raises an Error, runCatching(block) returns a Failure that
\* stores that same Error object.
C10_RunCatchingKeepsError ==
    (last.op = "runCatching" /\ Fn \in Throwing /\ instanceofError(Fn.exc)) =>
        /\ last.kind = "normal"
        /\ isFailure(last.val.ref, heap)
        /\ heap[last.val.ref].error = Fn.exc

\* C10 witness: runCatching ran a block that raises an Error.
C10_Witness ==
    /\ last.op = "runCatching"
    /\ Fn = Thrower(Error1)
    /\ last.kind = "normal"

\* the string form of a raised value x that has one
Representation(x) == String(x, heap, nerr).val.s

\* e is the Error that the catch clause makes of a raised value x
Normalized(e, x) ==
    IF instanceofError(x) THEN e = x
    ELSE /\ e.t = "Error"
         /\ e.id = nerr
         /\ e.message = IF typeof(x) = "string" THEN x.s ELSE Representation(x)

\* C11: when block raises a value x that is not an Error, runCatching(block)
\* returns a Failure holding a new Error whose message is x for a string x
\* and the string form of x for any other x.
C11_RunCatchingNormalizes ==
    (last.op = "runCatching" /\ Fn \in Throwing /\ ~instanceofError(Fn.exc)) =>
        /\ last.kind = "normal"
        /\ isFailure(last.val.ref, heap)
        /\ Normalized(heap[last.val.ref].error, Fn.exc)

\* C12: mapCatching(t) on a Success(v) invokes t exactly once, on v, lets no
\* exception out, and returns Success(t(v)) when t returns and a Failure
\* holding the normalized raised value when t raises.
C12_MapCatchingIsRunCatching ==
    (last.op = "mapCatching" /\ heap[This].cls = "Success") =>
        /\ last.calls = <<[fn |-> Fn, args |-> <<heap[This].value>>]>>
        /\ last.kind = "normal"
        /\ IF Applied(Fn, heap[This].value).kind = "normal"
           THEN heap[last.val.ref] = NewSuccess(Applied(Fn, heap[This].value).val)
           ELSE /\ isFailure(last.val.ref, heap)
                /\ Normalized(heap[last.val.ref].error, Applied(Fn, heap[This].value).val)

\* C13: recoverCatching(t) on a Failure(e), whatever e is, returns
\* Success(t(e)) when t returns and, when t raises, a new Failure holding the
\* normalized raised value.
C13_RecoverCatchingIsRunCatching ==
    (last.op = "recoverCatching" /\ heap[This].cls = "Failure") =>
        /\ last.calls = <<[fn |-> Fn, args |-> <<heap[This].error>>]>>
        /\ last.kind = "normal"
        /\ last.val.ref # This
        /\ IF Applied(Fn, heap[This].error).kind = "normal"
           THEN heap[last.val.ref] = NewSuccess(Applied(Fn, heap[This].error).val)
           ELSE /\ isFailure(last.val.ref, heap)
                /\ Normalized(heap[last.val.ref].error, Applied(Fn, heap[This].error).val)

\* C14: recover(t) and recoverCatching(t) on a Success return the receiver
\* itself and never invoke t, whatever the payload.
C14_RecoverReturnsReceiver ==
    (last.op \in {"recover", "recoverCatching"} /\ heap[This].cls = "Success") =>
        /\ last.kind = "normal"
        /\ last.val = ResultRef(This)
        /\ last.calls = <<>>

\* C14 witness: recover was called on a Success that holds null, with a
\* transform that would raise.
C14_Witness ==
    /\ last.op = "recover"
    /\ heap[This] = NewSuccess(Null)
    /\ Fn = Thrower(Error1)

\* C15: for a transform t that does not raise, recoverCatching(t) and
\* recover(t) give Results of the same variant and payload, and the same
\* instance when the receiver is a Success.
C15_RecoverCatchingEqualsRecover ==
    (last.op = "recoverCatching" /\ Fn \in Returning) =>
        LET o == recover(This, Fn, heap, nerr) IN
        /\ last.kind = "normal"
        /\ o.kind = "normal"
        /\ o.heap[o.val.ref] = heap[last.val.ref]
        /\ heap[This].cls = "Success" => o.val = last.val

\* C16: map(t) on a Success(v) invokes t exactly once, on v, and returns
\* Success(t(v)); on a Failure(e) it never invokes t and returns another
\* instance, a Failure holding e.
C16_Map ==
    last.op = "map" =>
        IF heap[This].cls = "Success"
        THEN /\ last.calls = <<[fn |-> Fn, args |-> <<heap[This].value>>]>>
             /\ Fn \in Returning =>
                    /\ last.kind = "normal"
                    /\ heap[last.val.ref] = NewSuccess(Applied(Fn, heap[This].value).val)
        ELSE /\ last.calls = <<>>
             /\ last.kind = "normal"
             /\ last.val.ref # This
             /\ heap[last.val.ref] = NewFailure(heap[This].error)

\* C16 witness: map was called on a Failure that stores an Error.
C16_Witness ==
    /\ last.op = "map"
    /\ heap[This] = NewFailure(Error1)
    /\ Fn = Identity
    /\ last.val = ResultRef(2)

\* C17: mapError(t) on a Failure(e) invokes t exactly once, on e, and returns
\* Failure(t(e)); on a Success(v) it never invokes t and returns a Success
\* holding v.
C17_MapError ==
    last.op = "mapError" =>
        IF heap[This].cls = "Failure"
        THEN /\ last.calls = <<[fn |-> Fn, args |-> <<heap[This].error>>]>>
             /\ Fn \in Returning =>
                    /\ last.kind = "normal"
                    /\ heap[last.val.ref] = NewFailure(Applied(Fn, heap[This].error).val)
        ELSE /\ last.calls = <<>>
             /\ last.kind = "normal"
             /\ heap[last.val.ref] = NewSuccess(heap[This].value)

\* C17 witness: mapError turned the Error of a Failure into a string.
C17_Witness ==
    /\ last.op = "mapError"
    /\ heap[This] = NewFailure(Error1)
    /\ Fn = Constant(Str("t"))
    /\ heap[last.val.ref] = NewFailure(Str("t"))

\* the two handlers of the latest fold, in either call form
FoldOnSuccess == IF Len(last.args) = 2 THEN last.args[1] ELSE last.args[1].onSuccess

FoldOnFailure == IF Len(last.args) = 2 THEN last.args[2] ELSE last.args[1].onFailure

\* C18: fold invokes exactly one handler, once, with the payload of the
\* receiver's variant, and completes as that handler does; the other handler
\* is never invoked.
C18_FoldExhaustive ==
    last.op = "fold" =>
        IF heap[This].cls = "Success"
        THEN /\ last.calls = <<[fn |-> FoldOnSuccess, args |-> <<heap[This].value>>]>>
             /\ last.kind = Applied(FoldOnSuccess, heap[This].value).kind
             /\ last.val = Applied(FoldOnSuccess, heap[This].value).val
        ELSE /\ last.calls = <<[fn |-> FoldOnFailure, args |-> <<heap[This].error>>]>>
             /\ last.kind = Applied(FoldOnFailure, heap[This].error).kind
             /\ last.val = Applied(FoldOnFailure, heap[This].error).val

\* C18 witness: fold ran onFailure on a Failure whose error is null.
C18_Witness ==
    /\ last.op = "fold"
    /\ heap[This] = NewFailure(Null)
    /\ last.args = <<Identity, Constant(Str("t"))>>
    /\ last.val = Str("t")

\* C19: fold(f1, f2) and fold({onSuccess: f1, onFailure: f2}) complete alike
\* and invoke the same handlers on the same arguments.
C19_FoldFormsAgree ==
    last.op = "fold" =>
        LET other == IF Len(last.args) = 2
                     THEN fold(This, HandlersObject(last.args[1], last.args[2]), Undefined, heap, nerr)
                     ELSE fold(This, last.args[1].onSuccess, last.args[1].onFailure, heap, nerr)
        IN  /\ last.kind = other.kind
            /\ last.val = other.val
            /\ last.calls = other.calls

\* C19 witness: fold was called with an object of handlers on a Success.
C19_Witness ==
    /\ last.op = "fold"
    /\ Len(last.args) = 1
    /\ heap[This] = NewSuccess(Str("x"))
    /\ last.args[1].onSuccess = Constant(Str("t"))
    /\ last.val = Str("t")

\* C20: onSuccess(action) invokes action, once and with the value, only on a
\* Success; onFailure(action) invokes action, once and with the error, only
\* on a Failure; both return the receiver itself in either case.
C20_SideEffectHooks ==
    last.op \in {"onSuccess", "onFailure"} =>
        LET matching == IF last.op = "onSuccess" THEN "Success" ELSE "Failure" IN
        /\ last.calls = IF heap[This].cls = matching
                        THEN <<[fn |-> Fn, args |-> <<rawValue(This, heap)>>]>>
                        ELSE <<>>
        /\ (heap[This].cls # matching \/ Fn \in Returning) =>
                (last.kind = "normal" /\ last.val = ResultRef(This))

\* C20 witness: onSuccess ran its action on a Success.
C20_Witness ==
    /\ last.op = "onSuccess"
    /\ heap[This] = NewSuccess(Str("x"))
    /\ Fn = Identity
    /\ Len(last.calls) = 1

\* C21: getOrThrow() on a Success returns the value and raises nothing, also
\* when the Success was built without an argument; on a Failure(e) it raises
\* e itself, whatever e is.
C21_GetOrThrow ==
    last.op = "getOrThrow" =>
        /\ last.calls = <<>>
        /\ IF heap[This].cls = "Success"
           THEN last.kind = "normal" /\ last.val = heap[This].value
           ELSE last.kind = "throw" /\ last.val = heap[This].error

\* C21 witness: getOrThrow raised the null stored in a Failure.
C21_Witness ==
    /\ last.op = "getOrThrow"
    /\ heap[This] = NewFailure(Null)
    /\ last.kind = "throw"
    /\ last.val = Null

\* C22: when the function handed to map, mapError, recover, fold, onFailure
\* or getOrElse is invoked and raises x, the operation itself raises x: it
\* invokes nothing else, returns nothing and builds no Result.
C22_CallbackRaisePropagates ==
    [][(/\ last'.op \in {"map", "mapError", "recover", "fold", "onFailure", "getOrElse"}
        /\ last'.calls # <<>>
        /\ last'.calls[1].fn.fn = "thrower")
       => (/\ last'.kind = "throw"
           /\ last'.val = last'.calls[1].fn.exc
           /\ Len(last'.calls) = 1
           /\ heap' = heap
           /\ nerr' = nerr)]_vars

\* C22 witness: the transform of mapError raised a string on a Failure.
C22_Witness ==
    /\ last.op = "mapError"
    /\ heap[This].cls = "Failure"
    /\ Fn = Thrower(Str("s"))
    /\ last.kind = "throw"
    /\ last.val = Str("s")

\* C23: no operation changes an existing Result: across every call, also one
\* whose callback raises, each Result that existed before the call has the
\* same variant and the same payload after it.
C23_ResultsImmutable ==
    [][\A r \in 1..Len(heap) : Len(heap') >= r /\ heap'[r] = heap[r]]_vars

\* C23 witness: onSuccess ran a raising action on a Success, next to a Result
\* that a catching transform derived from a Failure.
C23_Witness ==
    /\ last.op = "onSuccess"
    /\ Fn = Thrower(Error1)
    /\ last.kind = "throw"
    /\ heap = <<NewFailure(Str("x")), NewSuccess(Str("t"))>>
    /\ This = 2

\* C24: Result.success() and Result.success(undefined) build the same
\* Result: a Success with no payload, for which isSuccess is true and
\* getOrThrow() returns without raising.
C24_VoidSuccess ==
    (last.op = "success" /\ last.args \in {<<>>, <<Undefined>>}) =>
        /\ last.kind = "normal"
        /\ heap[last.val.ref] = NewSuccess(Undefined)
        /\ isSuccess(last.val.ref, heap)
        /\ ~isFailure(last.val.ref, heap)
        /\ getOrThrow(last.val.ref, heap, nerr) = Normal(Undefined, <<>>, heap, nerr)
        /\ success(<<>>, heap, nerr) = success(<<Undefined>>, heap, nerr)

\* C24 witness: Result.success() was called without an argument.
C24_Witness ==
    /\ last.op = "success"
    /\ last.args = <<>>
    /\ last.val = ResultRef(1)

\* C25: r.map(x => x) and r.mapError(x => x) return a Result of the same
\* variant and the same payload as r.
C25_IdentityTransform ==
    (last.op \in {"map", "mapError"} /\ Fn = Identity) =>
        /\ last.kind = "normal"
        /\ heap[last.val.ref] = heap[This]

\* C25 witness: map(x => x) on a Failure built another Failure of the same
\* Error.
C25_Witness ==
    /\ last.op = "map"
    /\ Fn = Identity
    /\ heap = <<NewFailure(Error1), NewFailure(Error1)>>
    /\ This = 1
    /\ last.val = ResultRef(2)

C27_FailureAbsorbs ==
    (/\ last.op \in {"map", "mapCatching", "onSuccess", "onFailure"}
     /\ heap[This].cls = "Failure")
    => /\ last.op # "onFailure" => (last.calls = <<>> /\ last.kind = "normal")
       /\ last.op = "onFailure" => \A i \in 1..Len(last.calls) : last.calls[i].fn = Fn
       /\ last.kind = "normal" =>
            /\ last.val.t = "Result"
            /\ heap[last.val.ref].cls = "Failure"
            /\ heap[last.val.ref].error = heap[This].error
            /\ \A f \in Functions :
                   LET e == heap[This].error
                       next == {map(last.val.ref, f, heap, nerr),
                                mapCatching(last.val.ref, f, heap, nerr),
                                onSuccess(last.val.ref, f, heap, nerr)}
                   IN  \A o \in next :
                           /\ o.kind = "normal"
                           /\ o.calls = <<>>
                           /\ o.heap[o.val.ref] = NewFailure(e)

\* C27 witness: a later link of a chain: onSuccess was called, with an action
\* that would raise, on a second Failure that stores the Error of the first.
C27_Witness ==
    /\ last.op = "onSuccess"
    /\ This = 2
    /\ heap = <<NewFailure(Error1), NewFailure(Error1)>>
    /\ Fn = Thrower(Error1)
    /\ last.val = ResultRef(2)

\* C28: r.getOrDefault(d) returns what r.getOrElse(_ => d) returns, for every
\* Result r and every d.
C28_FallbacksAgree ==
    last.op = "getOrDefault" =>
        LET o == getOrElse(This, Constant(last.args[1]), heap, nerr) IN
        /\ last.kind = "normal"
        /\ o.kind = "normal"
        /\ o.val = last.val

\* C29: every Failure that mapCatching returns stores an Error object,
\* whatever the receiver stores.
C29_MapCatchingFailureHoldsError ==
    (last.op = "mapCatching" /\ last.kind = "normal" /\ isFailure(last.val.ref, heap)) =>
        instanceofError(heap[last.val.ref].error)

\* C30 as stated: getOrNull() is null exactly when the receiver is a Failure.
C30_GetOrNullIdentifiesVariant ==
    last.op = "getOrNull" => ((last.val = Null) <=> heap[This].cls = "Failure")

\* C30, amended: getOrNull() is null exactly when the receiver is a Failure
\* or a Success that stores null; it is the stored value for every Success.
C30_GetOrNullOfNullSuccess ==
    last.op = "getOrNull" =>
        /\ last.kind = "normal"
        /\ (last.val = Null) <=> (heap[This].cls = "Failure" \/ heap[This] = NewSuccess(Null))
        /\ heap[This].cls = "Success" => last.val = heap[This].value

\* C30 witness: getOrNull() returned null for a Success that stores null.
C30_Witness ==
    /\ last.op = "getOrNull"
    /\ heap[This] = NewSuccess(Null)
    /\ last.val = Null

====
